---- MODULE Spec2Model ----
(***************************************************************************)
(* Model of the validator-pool integration (shared/lib/validator-pool.ts), *)
(* the treasury integration (shared/lib/pez-treasury.ts) and the           *)
(* useTreasury polling hook.  The chain (pallet storage, transaction       *)
(* status stream) is the environment; every exported function is modelled  *)
(* with one step per await.                                                *)
(***************************************************************************)
EXTENDS Integers, Sequences, FiniteSets, TLC

VARIABLES
  \* ---- chain storage of the validatorPool pallet
  poolMembers,         \* account -> category, or None (Option::None)
  performanceMetrics,  \* account -> Some(JSON record of the metrics), or NoValue
  \* ---- one call of getAllPoolMembers / getPoolMembersByCategory
  hpc,                 \* "idle" | "loop" | "done" | "failed"
  hcaller,             \* "all", or the category getPoolMembersByCategory filters on
  entries,             \* const entries  (validator-pool.ts:184)
  members,             \* const members  (validator-pool.ts:186)
  returned,            \* Some(listing the call returned), or NoValue
  hist,                \* history: the chain states that existed during the call
  \* ---- getPoolStats
  eraStorage,          \* currentEra, poolSize, eraLength, eraStart (JSON) and the header number
  poolStats,           \* Some(PoolStats returned), or NoValue
  \* ---- getReputationStatus
  repScore,            \* the argument
  repStatus,           \* Some(status returned), or NoValue
  \* ---- estimateEraRewards
  rewardArgs,          \* the arguments eraPoints, totalEraPoints, totalRewards
  rewardResult,        \* Some(number returned), or NoValue
  \* ---- joinValidatorPool / leaveValidatorPool / updateCategory
  calls,               \* the calls made so far, one record per call
  \* ---- chain storage of the pezTreasury pallet
  treasury,            \* pallet present?, treasuryBalance, proposals
  \* ---- the useTreasury hook
  mounted,             \* the component that uses the hook is mounted
  apiReady,            \* api && isApiReady
  effectPending,       \* the effect has to run (first render, or its deps changed)
  timerOn,             \* the setInterval of the effect is active
  polls,               \* the fetchTreasuryData runs started so far: what the node
                       \* answered, and how far the run is
  metrics,             \* useState metrics
  proposals,           \* useState proposals
  loading,             \* useState loading
  error,               \* useState error
  lastGood,            \* history: Some(what the last poll that read the pallet's data published)
  lastFailed,          \* history: a read of the poll that completed last was rejected
  healed,              \* history: the poll that completed last succeeded, one before it had failed
  publishedStopped     \* history: a run has published while no timer was set

poolVars == <<poolMembers, performanceMetrics, hpc, hcaller, entries, members,
              returned, hist>>

eraVars == <<eraStorage, poolStats>>
repVars == <<repScore, repStatus>>
rewardVars == <<rewardArgs, rewardResult>>

txVars == <<calls>>

hookVars == <<treasury, mounted, apiReady, effectPending, timerOn, polls, metrics,
              proposals, loading, error, lastGood, lastFailed, healed,
              publishedStopped>>

vars == <<poolVars, eraVars, repVars, rewardVars, txVars, hookVars>>

notPool == <<eraVars, repVars, rewardVars, txVars, hookVars>>
notEra == <<poolVars, repVars, rewardVars, txVars, hookVars>>
notRep == <<poolVars, eraVars, rewardVars, txVars, hookVars>>
notReward == <<poolVars, eraVars, repVars, txVars, hookVars>>
notHook == <<poolVars, eraVars, repVars, rewardVars, txVars>>
\* the transaction functions act on the chain's poolMembers
notTx == <<performanceMetrics, hpc, hcaller, entries, members, returned, hist,
           eraVars, repVars, rewardVars, hookVars>>

\* Option::None of a storage value holding a string (a category)
None == "None"
\* Option of a structured value: <<>> is None, <<v>> is Some(v)
NoValue == <<>>
Some(v) == <<v>>
\* JSON null / absent field of a numeric field (no number of the chain is negative)
Null == 0 - 1

\* Bound: how often the chain state may change while one hydration is running.
MaxChanges == 1

\* Storage iteration order of poolMembers.entries(): fixed for a given key set.
AccountOrder == <<"acc1", "acc2">>
Accounts == {AccountOrder[i] : i \in 1..Len(AccountOrder)}

Categories == {"StakeValidator", "ParliamentaryValidator", "MeritValidator"}

\* JSON values of performanceMetrics the chain may hold (a field may be absent).
MetricsSamples ==
  { [blocksProduced |-> 40, blocksMissed |-> 20, eraPoints |-> 300,
     lastActiveEra |-> 2, reputationScore |-> 70],
    [blocksProduced |-> 40, blocksMissed |-> 21, eraPoints |-> 300,
     lastActiveEra |-> 2, reputationScore |-> 69],
    [blocksProduced |-> Null, blocksMissed |-> Null, eraPoints |-> Null,
     lastActiveEra |-> Null, reputationScore |-> Null] }

MetricsOptions == {Some(x) : x \in MetricsSamples} \cup {NoValue}

\* JavaScript `x || 0` on a number or null.
OrZero(x) == IF x = Null \/ x = 0 THEN 0 ELSE x

ZeroPerformance ==
  [blocksProduced |-> 0, blocksMissed |-> 0, eraPoints |-> 0,
   lastActiveEra |-> 0, reputationScore |-> 0]

\* validator-pool.ts:194-210
ToPerformance(metricsOption) ==
  IF metricsOption # NoValue
    THEN LET metricsData == metricsOption[1] IN
         [blocksProduced |-> OrZero(metricsData.blocksProduced),
          blocksMissed |-> OrZero(metricsData.blocksMissed),
          eraPoints |-> OrZero(metricsData.eraPoints),
          lastActiveEra |-> OrZero(metricsData.lastActiveEra),
          reputationScore |-> OrZero(metricsData.reputationScore)]
    ELSE ZeroPerformance

IsActiveStrict(reputationScore) == reputationScore > 70

\* validator-pool.ts:216
IsActive(reputationScore) == reputationScore >= 70

\* validator-pool.ts:212-217
MakeMember(account, category, metricsOption) ==
  LET performance == ToPerformance(metricsOption) IN
  [account |-> account, category |-> category, performance |-> performance,
   isActive |-> IsActive(performance.reputationScore)]

\* api.query.validatorPool.poolMembers.entries() on chain state pm
EntriesOf(pm) ==
  LET keys == SelectSeq(AccountOrder, LAMBDA a : pm[a] # None) IN
  [i \in 1..Len(keys) |-> <<keys[i], pm[keys[i]]>>]

FilterOtherCategories(list, category) ==
  SelectSeq(list, LAMBDA m : m.category # category)

\* validator-pool.ts:231
FilterByCategory(list, category) ==
  SelectSeq(list, LAMBDA m : m.category = category)

ChainState == [pm |-> poolMembers, perf |-> performanceMetrics]

\* The listing a hydration would build if every read saw the one chain state c.
ListingAt(c) ==
  LET e == EntriesOf(c.pm) IN
  [i \in 1..Len(e) |-> MakeMember(e[i][1], e[i][2], c.perf[e[i][1]])]

PoolInit ==
  /\ poolMembers = [a \in Accounts |-> None]
  /\ performanceMetrics = [a \in Accounts |-> NoValue]
  /\ hpc = "idle"
  /\ hcaller = "all"
  /\ entries = <<>>
  /\ members = <<>>
  /\ returned = NoValue
  /\ hist = <<>>

\* ---- the chain changes under the reader (other users' transactions, the
\* ---- pallet's own bookkeeping); during a hydration at most MaxChanges times.
\* "done" and "failed" are the instant the call settles: the caller looks at
\* the outcome and lets go of it (Release) before time moves on.
Record(pm, perf) ==
  /\ hpc \in {"idle", "loop"}
  /\ IF hpc = "loop"
       THEN /\ Len(hist) <= MaxChanges
            /\ hist' = Append(hist, [pm |-> pm, perf |-> perf])
       ELSE hist' = hist

ChainSetMember(a, c) ==
  /\ poolMembers[a] # c
  /\ poolMembers' = [poolMembers EXCEPT ![a] = c]
  /\ Record(poolMembers', performanceMetrics)
  /\ UNCHANGED <<performanceMetrics, hpc, hcaller, entries, members, returned>>
  /\ UNCHANGED notPool

ChainSetMetrics(a, m) ==
  /\ performanceMetrics[a] # m
  /\ performanceMetrics' = [performanceMetrics EXCEPT ![a] = m]
  /\ Record(poolMembers, performanceMetrics')
  /\ UNCHANGED <<poolMembers, hpc, hcaller, entries, members, returned>>
  /\ UNCHANGED notPool

\* one block rewrites the metrics of every validator (end of an era)
ChainEndEra(m) ==
  /\ \A a \in Accounts : performanceMetrics[a] # m
  /\ performanceMetrics' = [a \in Accounts |-> m]
  /\ Record(poolMembers, performanceMetrics')
  /\ UNCHANGED <<poolMembers, hpc, hcaller, entries, members, returned>>
  /\ UNCHANGED notPool

\* ---- getAllPoolMembers (caller = "all") / getPoolMembersByCategory
\* validator-pool.ts:184-186 (and 230): the entries() read and the empty array
HydrateStart(caller) ==
  /\ hpc = "idle"
  /\ hcaller' = caller
  /\ entries' = EntriesOf(poolMembers)
  /\ members' = <<>>
  /\ hist' = <<ChainState>>
  /\ hpc' = "loop"
  /\ UNCHANGED <<poolMembers, performanceMetrics, returned>>
  /\ UNCHANGED notPool

\* validator-pool.ts:184: the entries() read rejects, the call throws
HydrateStartFails(caller) ==
  /\ hpc = "idle"
  /\ hcaller' = caller
  /\ entries' = <<>>
  /\ members' = <<>>
  /\ hist' = <<ChainState>>
  /\ hpc' = "failed"
  /\ UNCHANGED <<poolMembers, performanceMetrics, returned>>
  /\ UNCHANGED notPool

\* validator-pool.ts:188-218: one iteration, the await of performanceMetrics
HydrateStep ==
  /\ hpc = "loop"
  /\ Len(members) < Len(entries)
  /\ LET e == entries[Len(members) + 1] IN
       members' = Append(members, MakeMember(e[1], e[2], performanceMetrics[e[1]]))
  /\ UNCHANGED <<poolMembers, performanceMetrics, hpc, hcaller, entries,
                 returned, hist>>
  /\ UNCHANGED notPool

\* validator-pool.ts:193: the performanceMetrics read rejects, the call throws
HydrateStepFails ==
  /\ hpc = "loop"
  /\ Len(members) < Len(entries)
  /\ hpc' = "failed"
  /\ UNCHANGED <<poolMembers, performanceMetrics, hcaller, entries, members,
                 returned, hist>>
  /\ UNCHANGED notPool

\* validator-pool.ts:220 and 231: return members, filtered for a category caller
HydrateReturn ==
  /\ hpc = "loop"
  /\ Len(members) = Len(entries)
  /\ returned' = Some(IF hcaller = "all" THEN members
                      ELSE FilterByCategory(members, hcaller))
  /\ hpc' = "done"
  /\ UNCHANGED <<poolMembers, performanceMetrics, hcaller, entries, members, hist>>
  /\ UNCHANGED notPool

\* the caller has consumed the settled call; its locals are garbage
Release ==
  /\ hpc \in {"done", "failed"}
  /\ hpc' = "idle"
  /\ hcaller' = "all"
  /\ entries' = <<>>
  /\ members' = <<>>
  /\ returned' = NoValue
  /\ hist' = <<>>
  /\ UNCHANGED <<poolMembers, performanceMetrics>>
  /\ UNCHANGED notPool

PoolNext ==
  \/ \E a \in Accounts, c \in Categories \cup {None} : ChainSetMember(a, c)
  \/ \E a \in Accounts, m \in MetricsOptions : ChainSetMetrics(a, m)
  \/ \E m \in MetricsOptions : ChainEndEra(m)
  \/ \E caller \in Categories \cup {"all"} : HydrateStart(caller)
  \/ \E caller \in Categories \cup {"all"} : HydrateStartFails(caller)
  \/ HydrateStep
  \/ HydrateStepFails
  \/ HydrateReturn
  \/ Release

\* ------------------------------------------------------------------------
\* getPoolStats
\* ------------------------------------------------------------------------
\* Math.max(a, b)
Max(a, b) == IF a >= b THEN a ELSE b

BlocksUntilNewEraUnclamped(eraStartBlock, eraLen, currentBlock) ==
  eraStartBlock + eraLen - currentBlock

\* validator-pool.ts:94
BlocksUntilNewEra(eraStartBlock, eraLen, currentBlock) ==
  Max(0, eraStartBlock + eraLen - currentBlock)

\* validator-pool.ts:91-103
PoolStatsOf(st) ==
  LET currentBlock == st.blockNumber
      eraStartBlock == OrZero(st.eraStart)
      eraLen == OrZero(st.eraLength)
  IN [currentEra |-> OrZero(st.currentEra),
      poolSize |-> OrZero(st.poolSize),
      eraLength |-> eraLen,
      eraStartBlock |-> eraStartBlock,
      currentBlock |-> currentBlock,
      blocksUntilNewEra |-> BlocksUntilNewEra(eraStartBlock, eraLen, currentBlock)]

EraQuiet ==
  /\ eraStorage = [currentEra |-> Null, poolSize |-> Null, eraLength |-> Null,
                   eraStart |-> Null, blockNumber |-> 0]
  /\ poolStats = NoValue

\* the chain values getPoolStats may meet; a storage value may be missing
EraInit ==
  /\ eraStorage \in [currentEra : {Null, 7}, poolSize : {Null, 2},
                      eraLength : {Null, 0, 100, 1000},
                      eraStart : {Null, 0, 100, 1000},
                      blockNumber : {0, 1050, 1150, 5000}]
  /\ poolStats = NoValue

\* validator-pool.ts:82-104
GetPoolStats ==
  /\ poolStats = NoValue
  /\ poolStats' = Some(PoolStatsOf(eraStorage))
  /\ UNCHANGED eraStorage
  /\ UNCHANGED notEra

EraNext == GetPoolStats

\* ------------------------------------------------------------------------
\* getReputationStatus
\* ------------------------------------------------------------------------
\* reputationScore is 0-100 (validator-pool.ts:25)
MaxScore == 100

getReputationStatusExclusive(score) ==
  IF score > 90 THEN [label |-> "Excellent", color |-> "green", canValidate |-> TRUE]
  ELSE IF score > 70 THEN [label |-> "Good", color |-> "blue", canValidate |-> TRUE]
  ELSE IF score > 50 THEN [label |-> "Fair", color |-> "yellow", canValidate |-> FALSE]
  ELSE [label |-> "Poor", color |-> "red", canValidate |-> FALSE]

\* validator-pool.ts:381-395
getReputationStatus(score) ==
  IF score >= 90 THEN [label |-> "Excellent", color |-> "green", canValidate |-> TRUE]
  ELSE IF score >= 70 THEN [label |-> "Good", color |-> "blue", canValidate |-> TRUE]
  ELSE IF score >= 50 THEN [label |-> "Fair", color |-> "yellow", canValidate |-> FALSE]
  ELSE [label |-> "Poor", color |-> "red", canValidate |-> FALSE]

RepQuiet ==
  /\ repScore = 0
  /\ repStatus = NoValue

RepInit ==
  /\ repScore \in 0..MaxScore
  /\ repStatus = NoValue

GetReputationStatus ==
  /\ repStatus = NoValue
  /\ repStatus' = Some(getReputationStatus(repScore))
  /\ UNCHANGED repScore
  /\ UNCHANGED notRep

RepNext == GetReputationStatus

\* ------------------------------------------------------------------------
\* estimateEraRewards
\* ------------------------------------------------------------------------
\* A JavaScript number as a fraction <<numerator, denominator>> in lowest
\* terms with a denominator >= 0; the denominator 0 holds the values a
\* division by zero produces: <<1, 0>> Infinity, <<0 - 1, 0>> -Infinity,
\* <<0, 0>> NaN.
Sign(x) == IF x > 0 THEN 1 ELSE IF x < 0 THEN 0 - 1 ELSE 0

Abs(x) == IF x < 0 THEN 0 - x ELSE x

RECURSIVE Gcd(_, _)
Gcd(a, b) == IF b = 0 THEN a ELSE Gcd(b, a % b)

Frac(n, d) ==
  IF d = 0 THEN <<Sign(n), 0>>
  ELSE LET g == Gcd(Abs(n), Abs(d))
       IN <<(Sign(d) * n) \div g, Abs(d) \div g>>

\* a / b of two integers
Divide(a, b) == Frac(a, b)

\* x * c of a number and an integer (Infinity * 0 and NaN * c are NaN)
Times(x, c) ==
  IF x[2] = 0 THEN <<(IF x[1] = 0 THEN 0 ELSE x[1] * Sign(c)), 0>>
  ELSE Frac(x[1] * c, x[2])

Zero == <<0, 1>>

estimateEraRewardsUnguarded(eraPoints, totalEraPoints, totalRewards) ==
  Times(Divide(eraPoints, totalEraPoints), totalRewards)

\* validator-pool.ts:373-376
estimateEraRewards(eraPoints, totalEraPoints, totalRewards) ==
  IF totalEraPoints = 0 THEN Zero
  ELSE Times(Divide(eraPoints, totalEraPoints), totalRewards)

\* era points and reward amounts the function may be called with
EraPointSamples == {0, 1, 2, 3, 300, 900}
RewardSamples == {0, 1, 7, 1000}

RewardQuiet ==
  /\ rewardArgs = [eraPoints |-> 0, totalEraPoints |-> 0, totalRewards |-> 0]
  /\ rewardResult = NoValue

RewardInit ==
  /\ rewardArgs \in [eraPoints : EraPointSamples, totalEraPoints : EraPointSamples,
                      totalRewards : RewardSamples]
  /\ rewardResult = NoValue

EstimateEraRewards ==
  /\ rewardResult = NoValue
  /\ rewardResult' = Some(estimateEraRewards(rewardArgs.eraPoints,
                                             rewardArgs.totalEraPoints,
                                             rewardArgs.totalRewards))
  /\ UNCHANGED rewardArgs
  /\ UNCHANGED notReward

RewardNext == EstimateEraRewards

\* ------------------------------------------------------------------------
\* Transaction functions: joinValidatorPool, leaveValidatorPool, updateCategory
\* ------------------------------------------------------------------------
\* Bound: number of calls in one behaviour.
MaxCalls == 2

\* What the pool state says about a requested change (the pallet applies it
\* when the extrinsic is executed; the functions themselves never look).
Precondition(op, signer, category, pm) ==
  CASE op = "join" -> IF pm[signer] # None THEN "AlreadyMember" ELSE "ok"
    [] op = "leave" -> IF pm[signer] = None THEN "NotMember" ELSE "ok"
    [] op = "update" -> IF pm[signer] = None THEN "NotMember"
                        ELSE IF pm[signer] = category THEN "NoOpCategoryChange"
                        ELSE "ok"

\* The extrinsic's effect on chain storage when it is executed without error.
Applied(op, signer, category, pm) ==
  CASE op = "join" -> [pm EXCEPT ![signer] = category]
    [] op = "leave" -> [pm EXCEPT ![signer] = None]
    [] op = "update" -> [pm EXCEPT ![signer] = category]

OnStatusAnyStatus(promise, isInBlock, dispatchError) ==
  IF promise = "pending"
    THEN (IF dispatchError THEN "rejected" ELSE "resolved")
    ELSE promise

\* validator-pool.ts:262-270 (the same callback at 281-289 and 304-312);
\* resolve / reject of an already settled promise changes nothing
OnStatus(promise, isInBlock, dispatchError) ==
  IF isInBlock
    THEN IF promise = "pending"
           THEN (IF dispatchError THEN "rejected" ELSE "resolved")
           ELSE promise
    ELSE promise

TxInit == calls = <<>>

\* validator-pool.ts:254-262, 277-281, 296-304: build the extrinsic, create the
\* promise, call tx.signAndSend; no check of the pool state comes first
Call(op, signer, category) ==
  /\ Len(calls) < MaxCalls
  /\ calls' = Append(calls,
       [op |-> op, signer |-> signer, category |-> category,
        precondition |-> Precondition(op, signer, category, poolMembers),
        stage |-> "signing", status |-> "none", promise |-> "pending",
        firstInBlock |-> "none"])
  /\ UNCHANGED poolMembers
  /\ UNCHANGED notTx

\* validator-pool.ts:254-272
JoinValidatorPool(signer, category) == Call("join", signer, category)

\* validator-pool.ts:277-291
LeaveValidatorPool(signer) == Call("leave", signer, None)

\* validator-pool.ts:296-314
UpdateCategory(signer, newCategory) == Call("update", signer, newCategory)

\* signAndSend rejects (no signer, signing refused, the node refuses the
\* extrinsic): its promise is dropped by the caller, the callback never runs
SignAndSendFails(i) ==
  /\ i <= Len(calls)
  /\ calls[i].stage = "signing"
  /\ calls' = [calls EXCEPT ![i].stage = "signFailed"]
  /\ UNCHANGED poolMembers
  /\ UNCHANGED notTx

\* a status callback without inclusion: Ready (the node took the extrinsic),
\* Broadcast, Finalized, or an end without inclusion
Deliver(i, status) ==
  calls' = [calls EXCEPT ![i].status = status,
                         ![i].promise = OnStatus(@, FALSE, FALSE)]

StatusReady(i) ==
  /\ i <= Len(calls)
  /\ calls[i].stage = "signing"
  /\ calls' = [calls EXCEPT ![i].stage = "submitted", ![i].status = "ready",
                            ![i].promise = OnStatus(@, FALSE, FALSE)]
  /\ UNCHANGED poolMembers
  /\ UNCHANGED notTx

StatusBroadcast(i) ==
  /\ i <= Len(calls)
  /\ calls[i].status = "ready"
  /\ Deliver(i, "broadcast")
  /\ UNCHANGED poolMembers
  /\ UNCHANGED notTx

\* Dropped, Invalid or Usurped: the extrinsic never gets into a block
StatusNotIncluded(i, status) ==
  /\ i <= Len(calls)
  /\ calls[i].status \in {"ready", "broadcast"}
  /\ Deliver(i, status)
  /\ UNCHANGED poolMembers
  /\ UNCHANGED notTx

\* InBlock: the extrinsic was executed; the pallet refuses a change the pool
\* state does not allow, and may refuse for reasons of its own
StatusInBlock(i, dispatchError) ==
  /\ i <= Len(calls)
  /\ calls[i].status \in {"ready", "broadcast"}
  /\ Precondition(calls[i].op, calls[i].signer, calls[i].category, poolMembers) # "ok"
       => dispatchError
  /\ calls' = [calls EXCEPT ![i].status = "inBlock",
                            ![i].promise = OnStatus(@, TRUE, dispatchError),
                            ![i].firstInBlock = IF dispatchError THEN "error" ELSE "ok"]
  /\ poolMembers' = IF dispatchError THEN poolMembers
                     ELSE Applied(calls[i].op, calls[i].signer, calls[i].category,
                                  poolMembers)
  /\ UNCHANGED notTx

\* Finalized: isInBlock is false, dispatchError is still passed
StatusFinalized(i) ==
  /\ i <= Len(calls)
  /\ calls[i].status = "inBlock"
  /\ calls' = [calls EXCEPT ![i].status = "finalized",
                            ![i].promise = OnStatus(@, FALSE, calls[i].firstInBlock = "error")]
  /\ UNCHANGED poolMembers
  /\ UNCHANGED notTx

TxNext ==
  \/ \E a \in Accounts, c \in Categories : JoinValidatorPool(a, c)
  \/ \E a \in Accounts : LeaveValidatorPool(a)
  \/ \E a \in Accounts, c \in Categories : UpdateCategory(a, c)
  \/ \E i \in 1..MaxCalls : SignAndSendFails(i)
  \/ \E i \in 1..MaxCalls : StatusReady(i)
  \/ \E i \in 1..MaxCalls : StatusBroadcast(i)
  \/ \E i \in 1..MaxCalls, st \in {"dropped", "invalid", "usurped"} :
       StatusNotIncluded(i, st)
  \/ \E i \in 1..MaxCalls, e \in BOOLEAN : StatusInBlock(i, e)
  \/ \E i \in 1..MaxCalls : StatusFinalized(i)

\* ------------------------------------------------------------------------
\* pez-treasury.ts: the queries the hook uses
\* ------------------------------------------------------------------------
\* Bound: number of proposals the chain holds.
MaxProposals == 1
\* Bound: number of fetchTreasuryData runs in one behaviour.
MaxPolls == 2

\* raw amounts the chain may hold
Balances == {0, 10000}
Amounts == {4000}

\* A decimal string: the number it shows, and whether it is written with
\* thousands separators ("10,000").
Str(n) == [digits |-> n, commas |-> FALSE]

\* formatBalance of ./wallet: the amount written out, large amounts with
\* thousands separators (the callers strip commas before parsing)
formatBalance(raw) == [digits |-> raw, commas |-> (raw >= 1000 \/ 0 - raw >= 1000)]

\* s.replace(/,/g, '')
StripCommas(s) == [s EXCEPT !.commas = FALSE]

\* parseFloat stops at the first comma (the amounts here have at most one)
parseFloat(s) == IF s.commas THEN s.digits \div 1000 ELSE s.digits

\* BigInt(s) of a string without separators
BigIntOf(s) == s.digits

RECURSIVE SumAllocated(_)
\* pez-treasury.ts:99: totalAllocated += BigInt(proposal.amount || '0')
SumAllocated(ps) ==
  IF ps = <<>> THEN 0 ELSE Head(ps).amount + SumAllocated(Tail(ps))

RECURSIVE SumDistributed(_)
\* pez-treasury.ts:233: totalDistributed += BigInt(proposal.amount.replace(/,/g, ''))
SumDistributed(ps) ==
  IF ps = <<>> THEN 0
  ELSE BigIntOf(StripCommas(Head(ps).amount)) + SumDistributed(Tail(ps))

IsActiveStatus(status) == status = "Pending" \/ status = "Approved"

\* pez-treasury.ts:61-67 and 118-124
FallbackInfo ==
  [totalBalance |-> Str(0), totalAllocated |-> Str(0), availableBalance |-> Str(0),
   proposalCount |-> 0, activeProposals |-> 0]

\* pez-treasury.ts:56-126; ok = FALSE: the queries are rejected, which the
\* inner try blocks (72-79, 86-105) turn into the initial values 0
getTreasuryInfo(t, ok) ==
  IF ~t.pallet THEN FallbackInfo
  ELSE
    LET totalBalance == IF ok THEN t.balance ELSE 0
        ps == IF ok THEN t.proposals ELSE <<>>
        act == SelectSeq(ps, LAMBDA p : IsActiveStatus(p.status))
        totalAllocated == SumAllocated(act)
    IN [totalBalance |-> formatBalance(totalBalance),
        totalAllocated |-> formatBalance(totalAllocated),
        availableBalance |-> formatBalance(totalBalance - totalAllocated),
        proposalCount |-> Len(ps),
        activeProposals |-> Len(act)]

\* pez-treasury.ts:131-169; a rejected query ends in the catch: []
getAllProposals(t, ok) ==
  IF ~t.pallet \/ ~ok THEN <<>>
  ELSE [i \in 1..Len(t.proposals) |->
          [proposalId |-> i - 1,
           amount |-> formatBalance(t.proposals[i].amount),
           status |-> t.proposals[i].status]]

\* pez-treasury.ts:174-177
getActiveProposals(t, ok) ==
  SelectSeq(getAllProposals(t, ok), LAMBDA p : IsActiveStatus(p.status))

\* pez-treasury.ts:217-259
getTreasuryStats(t, ok) ==
  LET allProposals == getAllProposals(t, ok)
      executed == SelectSeq(allProposals, LAMBDA p : p.status = "Executed")
      totalDistributed == SumDistributed(executed)
  IN [totalProposals |-> Len(allProposals),
      approvedProposals |-> Len(executed),
      rejectedProposals |->
        Len(SelectSeq(allProposals, LAMBDA p : p.status = "Rejected")),
      totalDistributed |-> formatBalance(totalDistributed)]

\* pez-treasury.ts:416-431, the ratio tests cross-multiplied by balance
calculateHealthScore(totalBalance, totalAllocated) ==
  LET balance == parseFloat(StripCommas(totalBalance))
      allocated == parseFloat(StripCommas(totalAllocated))
      available == (balance - allocated) * 100
  IN IF balance = 0 THEN 0
     ELSE IF allocated = 0 THEN 100
     ELSE IF available >= 70 * balance THEN 100
     ELSE IF available >= 50 * balance THEN 80
     ELSE IF available >= 30 * balance THEN 60
     ELSE IF available >= 10 * balance THEN 40
     ELSE 20

\* ------------------------------------------------------------------------
\* The useTreasury hook
\* ------------------------------------------------------------------------
\* x / 12 as a fraction <<numerator, denominator>>
Twelfth(x) == IF x % 12 = 0 THEN <<x \div 12, 1>> ELSE <<x, 12>>

NoError == "null"

\* part_000:31-38
InitialMetrics ==
  [totalBalance |-> 0, monthlyIncome |-> 0, monthlyExpenses |-> Twelfth(0),
   pendingProposals |-> 0, approvedBudget |-> 0, healthScore |-> 0]

\* part_000:61-90
MetricsOf(treasuryInfo, stats) ==
  LET totalBalance == parseFloat(StripCommas(treasuryInfo.totalBalance))
      totalAllocated == parseFloat(StripCommas(treasuryInfo.totalAllocated))
      totalDistributed == parseFloat(StripCommas(stats.totalDistributed))
  IN [totalBalance |-> totalBalance,
      monthlyIncome |-> 0,
      monthlyExpenses |-> Twelfth(totalDistributed),
      pendingProposals |-> treasuryInfo.activeProposals,
      approvedBudget |-> totalAllocated,
      healthScore |-> calculateHealthScore(treasuryInfo.totalBalance,
                                           treasuryInfo.totalAllocated)]

\* status.toLowerCase() of an active proposal
ToLowerCase(status) == IF status = "Pending" THEN "pending" ELSE "approved"

\* part_000:73-81
ProposalsListOf(activeProposals) ==
  [i \in 1..Len(activeProposals) |->
     [index |-> activeProposals[i].proposalId,
      value |-> activeProposals[i].amount,
      bond |-> Str(0),
      status |-> ToLowerCase(activeProposals[i].status)]]

\* the hook is mounted against a chain whose treasury already holds funds
HookInit ==
  /\ treasury \in [pallet : BOOLEAN, balance : {b \in Balances : b > 0},
                    proposals : {<<>>}]
  /\ mounted = TRUE
  /\ apiReady \in BOOLEAN
  /\ effectPending = TRUE
  /\ timerOn = FALSE
  /\ polls = <<>>
  /\ metrics = InitialMetrics
  /\ proposals = <<>>
  /\ loading = TRUE
  /\ error = NoError
  /\ lastGood = NoValue
  /\ lastFailed = FALSE
  /\ healed = FALSE
  /\ publishedStopped = FALSE

HookQuiet ==
  /\ treasury = [pallet |-> TRUE, balance |-> 0, proposals |-> <<>>]
  /\ mounted = FALSE
  /\ apiReady = FALSE
  /\ effectPending = TRUE
  /\ timerOn = FALSE
  /\ polls = <<>>
  /\ metrics = InitialMetrics
  /\ proposals = <<>>
  /\ loading = TRUE
  /\ error = NoError
  /\ lastGood = NoValue
  /\ lastFailed = FALSE
  /\ healed = FALSE
  /\ publishedStopped = FALSE

hookState == <<mounted, apiReady, effectPending, timerOn, polls, metrics, proposals,
               loading, error, lastGood, lastFailed, healed, publishedStopped>>

\* ---- the chain: funds move, proposals are submitted, voted on, executed
TreasuryBalanceChanges(b) ==
  /\ treasury.pallet
  /\ treasury.balance # b
  /\ treasury' = [treasury EXCEPT !.balance = b]
  /\ UNCHANGED hookState
  /\ UNCHANGED notHook

\* pez-treasury.ts:268-292 (chain effect)
ProposalSubmitted(amount) ==
  /\ treasury.pallet
  /\ Len(treasury.proposals) < MaxProposals
  /\ treasury' = [treasury EXCEPT
       !.proposals = Append(@, [amount |-> amount, status |-> "Pending"])]
  /\ UNCHANGED hookState
  /\ UNCHANGED notHook

\* pez-treasury.ts:297-347 (chain effect of the votes and of the execution)
ProposalStatusChanges(i, status) ==
  /\ i <= Len(treasury.proposals)
  /\ \/ treasury.proposals[i].status = "Pending" /\ status \in {"Approved", "Rejected"}
     \/ treasury.proposals[i].status = "Approved" /\ status = "Executed"
  /\ treasury' = [treasury EXCEPT !.proposals[i].status = status]
  /\ UNCHANGED hookState
  /\ UNCHANGED notHook

\* the histories every step but the end of a run leaves alone
hookHistory == <<lastGood, lastFailed, healed, publishedStopped>>

\* part_000:50-52 and 55: a run of fetchTreasuryData up to its await
StartPoll ==
  /\ polls' = Append(polls, [stage |-> "reading", read |-> NoValue])
  /\ loading' = TRUE
  /\ error' = NoError

\* part_000:43-47: the effect without a ready api; the cleanup of the run
\* before it (106) has cleared that run's interval
EffectNotReady ==
  /\ mounted
  /\ effectPending
  /\ ~apiReady
  /\ effectPending' = FALSE
  /\ timerOn' = FALSE
  /\ loading' = FALSE
  /\ UNCHANGED <<treasury, mounted, apiReady, polls, metrics, proposals, error>>
  /\ UNCHANGED hookHistory
  /\ UNCHANGED notHook

\* part_000:102-106: the effect with a ready api: first run, then the timer
EffectReady ==
  /\ mounted
  /\ effectPending
  /\ apiReady
  /\ Len(polls) < MaxPolls
  /\ effectPending' = FALSE
  /\ StartPoll
  /\ timerOn' = TRUE
  /\ UNCHANGED <<treasury, mounted, apiReady, metrics, proposals>>
  /\ UNCHANGED hookHistory
  /\ UNCHANGED notHook

\* usePolkadot reports the api ready: the deps [api, isApiReady] change
ApiBecomesReady ==
  /\ mounted
  /\ ~apiReady
  /\ ~effectPending
  /\ apiReady' = TRUE
  /\ effectPending' = TRUE
  /\ UNCHANGED <<treasury, mounted, timerOn, polls, metrics, proposals, loading,
                 error>>
  /\ UNCHANGED hookHistory
  /\ UNCHANGED notHook

\* usePolkadot reports the api gone (disconnect): the deps change again
ApiBecomesNotReady ==
  /\ mounted
  /\ apiReady
  /\ ~effectPending
  /\ apiReady' = FALSE
  /\ effectPending' = TRUE
  /\ UNCHANGED <<treasury, mounted, timerOn, polls, metrics, proposals, loading,
                 error>>
  /\ UNCHANGED hookHistory
  /\ UNCHANGED notHook

\* part_000:106: the component unmounts, the cleanup clears the interval
Unmount ==
  /\ mounted
  /\ mounted' = FALSE
  /\ timerOn' = FALSE
  /\ effectPending' = FALSE
  /\ UNCHANGED <<treasury, apiReady, polls, metrics, proposals, loading, error>>
  /\ UNCHANGED hookHistory
  /\ UNCHANGED notHook

\* part_000:105: the interval fires
TimerTick ==
  /\ timerOn
  /\ Len(polls) < MaxPolls
  /\ StartPoll
  /\ UNCHANGED <<treasury, mounted, apiReady, effectPending, timerOn, metrics,
                 proposals>>
  /\ UNCHANGED hookHistory
  /\ UNCHANGED notHook

\* part_000:55-59: the node answers the queries of run i from the state it
\* has now; ok = FALSE: it rejects them (without the pallet no query is made).
\* The answer is on its way until the run goes on.
PollReads(i, ok) ==
  /\ i <= Len(polls)
  /\ polls[i].stage = "reading"
  /\ ~ok => treasury.pallet
  /\ polls' = [polls EXCEPT ![i] = [stage |-> "answered",
                                    read |-> Some([ok |-> ok, t |-> treasury])]]
  /\ UNCHANGED <<treasury, mounted, apiReady, effectPending, timerOn, metrics,
                 proposals, loading, error>>
  /\ UNCHANGED hookHistory
  /\ UNCHANGED notHook

\* part_000:61-90 on the answer a run got
PublishedOf(read) ==
  LET treasuryInfo == getTreasuryInfo(read.t, read.ok)
      activeProposals == getActiveProposals(read.t, read.ok)
      stats == getTreasuryStats(read.t, read.ok)
  IN [metrics |-> MetricsOf(treasuryInfo, stats),
      proposals |-> ProposalsListOf(activeProposals)]

\* part_000:55-98: Promise.all settles and the run goes on to its end.  None
\* of the three queries can reject (each catches every error and returns its
\* fallback), and nothing after them throws, so the catch at 94-96 has no way
\* in.  No run looks whether a later run has published or whether its
\* interval is still set.
PollCompletes(i) ==
  /\ mounted
  /\ i <= Len(polls)
  /\ polls[i].stage = "answered"
  /\ LET read == polls[i].read[1] IN
       /\ metrics' = PublishedOf(read).metrics
       /\ proposals' = PublishedOf(read).proposals
       /\ lastFailed' = ~read.ok
       /\ healed' = (read.ok /\ (lastFailed \/ healed))
       /\ lastGood' = IF read.ok /\ read.t.pallet
                        THEN Some(PublishedOf(read))
                        ELSE lastGood
  /\ loading' = FALSE
  /\ polls' = [polls EXCEPT ![i].stage = "published"]
  /\ publishedStopped' = (publishedStopped \/ ~timerOn)
  /\ UNCHANGED <<treasury, mounted, apiReady, effectPending, timerOn, error>>
  /\ UNCHANGED notHook

\* the same after the unmount: React drops the state updates of a component
\* that is gone
PollCompletesUnmounted(i) ==
  /\ ~mounted
  /\ i <= Len(polls)
  /\ polls[i].stage = "answered"
  /\ polls' = [polls EXCEPT ![i].stage = "discarded"]
  /\ UNCHANGED <<treasury, mounted, apiReady, effectPending, timerOn, metrics,
                 proposals, loading, error>>
  /\ UNCHANGED hookHistory
  /\ UNCHANGED notHook

HookNext ==
  \/ \E b \in Balances : TreasuryBalanceChanges(b)
  \/ \E amount \in Amounts : ProposalSubmitted(amount)
  \/ \E i \in 1..MaxProposals, st \in {"Approved", "Rejected", "Executed"} :
       ProposalStatusChanges(i, st)
  \/ EffectNotReady
  \/ EffectReady
  \/ ApiBecomesReady
  \/ ApiBecomesNotReady
  \/ Unmount
  \/ TimerTick
  \/ \E i \in 1..MaxPolls, ok \in BOOLEAN : PollReads(i, ok)
  \/ \E i \in 1..MaxPolls : PollCompletes(i)
  \/ \E i \in 1..MaxPolls : PollCompletesUnmounted(i)

\* ------------------------------------------------------------------------
\* Specifications
\* ------------------------------------------------------------------------
InitPool == PoolInit /\ EraQuiet /\ RepQuiet /\ TxInit /\ HookQuiet /\ RewardQuiet
InitEra == EraInit /\ PoolInit /\ RepQuiet /\ TxInit /\ HookQuiet /\ RewardQuiet
InitRep == RepInit /\ PoolInit /\ EraQuiet /\ TxInit /\ HookQuiet /\ RewardQuiet
InitTx == TxInit /\ PoolInit /\ EraQuiet /\ RepQuiet /\ HookQuiet /\ RewardQuiet
InitReward == RewardInit /\ PoolInit /\ EraQuiet /\ RepQuiet /\ TxInit /\ HookQuiet
InitHook == HookInit /\ PoolInit /\ EraQuiet /\ RepQuiet /\ TxInit /\ RewardQuiet

SpecPool == InitPool /\ [][PoolNext]_vars
SpecEra == InitEra /\ [][EraNext]_vars
SpecRep == InitRep /\ [][RepNext]_vars
SpecReward == InitReward /\ [][RewardNext]_vars
SpecTx == InitTx /\ [][TxNext]_vars

\* what the signer and the node do to call i: signAndSend comes back, and the
\* node goes on reporting the extrinsic's status until a final one
ChainStep(i) ==
  \/ SignAndSendFails(i)
  \/ StatusReady(i)
  \/ StatusBroadcast(i)
  \/ \E st \in {"dropped", "invalid", "usurped"} : StatusNotIncluded(i, st)
  \/ \E e \in BOOLEAN : StatusInBlock(i, e)
  \/ StatusFinalized(i)

\* the transaction functions under a signer and a node that do not stall
SpecTxLive == SpecTx /\ \A i \in 1..MaxCalls : WF_vars(ChainStep(i))
SpecHook == InitHook /\ [][HookNext]_vars

\* ------------------------------------------------------------------------
\* Properties of the pool listing
\* ------------------------------------------------------------------------
ActiveThreshold == 70

RECURSIVE IsSubsequence(_, _)
\* s can be obtained from t by deleting elements, order kept
IsSubsequence(s, t) ==
  IF s = <<>> THEN TRUE
  ELSE IF t = <<>> THEN FALSE
  ELSE IF Head(s) = Head(t) THEN IsSubsequence(Tail(s), Tail(t))
  ELSE IsSubsequence(s, Tail(t))

AccountsOf(list) == {list[i].account : i \in 1..Len(list)}

ThresholdHolds(list) ==
  \A i \in 1..Len(list) :
    list[i].isActive = (list[i].performance.reputationScore >= ActiveThreshold)

\* C1: every member a hydration has built or returned has
\* isActive = (performance.reputationScore >= 70); a member whose metrics are
\* missing on chain gets the all-zero record and isActive = FALSE.
C1_IsActiveIsThreshold ==
  /\ ThresholdHolds(members)
  /\ returned # NoValue => ThresholdHolds(returned[1])
  /\ \A a \in Accounts, c \in Categories :
       /\ MakeMember(a, c, NoValue).performance = ZeroPerformance
       /\ MakeMember(a, c, NoValue).isActive = FALSE

\* a returned listing with an active member and a member without metrics
C1_Witness ==
  /\ hpc = "done"
  /\ returned # NoValue
  /\ \E i, j \in 1..Len(returned[1]) :
       /\ returned[1][i].isActive
       /\ performanceMetrics[returned[1][j].account] = NoValue
       /\ returned[1][j].performance = ZeroPerformance
       /\ ~returned[1][j].isActive

\* C2: a hydration that returns has built the listing of one chain state
\* that existed while it ran.
C2_HydrationAtomic ==
  hpc = "done" => \E i \in 1..Len(hist) : members = ListingAt(hist[i])

PartitionsByCategory(full) ==
  /\ \A c \in Categories : IsSubsequence(FilterByCategory(full, c), full)
  /\ \A i \in 1..Len(full) :
       Cardinality({c \in Categories :
                      full[i].account \in AccountsOf(FilterByCategory(full, c))}) = 1
  /\ \A c, d \in Categories :
       c # d => AccountsOf(FilterByCategory(full, c))
                  \cap AccountsOf(FilterByCategory(full, d)) = {}

\* C6: for every pool state the category listings are order-preserving
\* subsequences of the full listing, pairwise disjoint, and cover it; a
\* getPoolMembersByCategory call returns such a subsequence of the full
\* listing it built.
C6_CategoryListingsPartition ==
  /\ PartitionsByCategory(ListingAt(ChainState))
  /\ PartitionsByCategory(members)
  /\ (hpc = "done" /\ hcaller \in Categories) =>
       /\ IsSubsequence(returned[1], members)
       /\ AccountsOf(returned[1]) =
            {members[i].account : i \in {j \in 1..Len(members) :
                                            members[j].category = hcaller}}

\* a category call that kept one of two members of different categories
C6_Witness ==
  /\ hpc = "done"
  /\ hcaller \in Categories
  /\ Len(members) = 2
  /\ Len(returned[1]) = 1
  /\ members[1].category # members[2].category

\* ------------------------------------------------------------------------
\* Properties of getPoolStats and getReputationStatus
\* ------------------------------------------------------------------------
\* C7: blocksUntilNewEra = max(0, eraStartBlock + eraLength - currentBlock),
\* never negative, missing chain values counting as 0;
\* (100, 1000, 1150) gives 0 and (100, 1000, 1050) gives 50.
C7_BlocksUntilNewEra ==
  poolStats # NoValue =>
    LET st == poolStats[1]
        start == IF eraStorage.eraStart = Null THEN 0 ELSE eraStorage.eraStart
        len == IF eraStorage.eraLength = Null THEN 0 ELSE eraStorage.eraLength
        left == start + len - eraStorage.blockNumber
    IN /\ st.blocksUntilNewEra >= 0
       /\ st.blocksUntilNewEra = (IF left > 0 THEN left ELSE 0)
       /\ (start = 100 /\ len = 1000 /\ eraStorage.blockNumber = 1150)
            => st.blocksUntilNewEra = 0
       /\ (start = 100 /\ len = 1000 /\ eraStorage.blockNumber = 1050)
            => st.blocksUntilNewEra = 50

\* the boundary has long passed: currentBlock far beyond eraStart + eraLength
C7_Witness ==
  /\ poolStats # NoValue
  /\ eraStorage.eraStart = 100
  /\ eraStorage.eraLength = 1000
  /\ eraStorage.blockNumber = 5000
  /\ poolStats[1].blocksUntilNewEra = 0

\* C8: one tier per score, inclusive lower bounds 90 / 70 / 50, and
\* canValidate exactly when score >= 70.
C8_ReputationTiers ==
  repStatus # NoValue =>
    LET r == repStatus[1] IN
    /\ r.label \in {"Excellent", "Good", "Fair", "Poor"}
    /\ (r.label = "Excellent") = (repScore >= 90)
    /\ (r.label = "Good") = (repScore >= 70 /\ repScore <= 89)
    /\ (r.label = "Fair") = (repScore >= 50 /\ repScore <= 69)
    /\ (r.label = "Poor") = (repScore < 50)
    /\ r.canValidate = (repScore >= 70)

\* the lowest score that may validate
C8_Witness ==
  /\ repScore = 70
  /\ repStatus # NoValue
  /\ repStatus[1].label = "Good"
  /\ repStatus[1].canValidate

\* C11: estimateEraRewards returns 0 whenever totalEraPoints is 0, whatever
\* eraPoints and totalRewards are, and otherwise the proportional share
\* eraPoints / totalEraPoints * totalRewards.
C11_EstimateEraRewards ==
  rewardResult # NoValue =>
    LET r == rewardResult[1]
        a == rewardArgs
    IN IF a.totalEraPoints = 0
         THEN r = Zero
         ELSE /\ r[2] > 0
              /\ r[1] * a.totalEraPoints = a.eraPoints * a.totalRewards * r[2]

\* both branches: a zero total with points and rewards at hand, and a third
\* of the rewards
C11_Witness ==
  /\ rewardResult # NoValue
  /\ \/ /\ rewardArgs.totalEraPoints = 0
        /\ rewardArgs.eraPoints = 300
        /\ rewardArgs.totalRewards = 1000
        /\ rewardResult[1] = Zero
     \/ /\ rewardArgs.totalEraPoints = 900
        /\ rewardArgs.eraPoints = 300
        /\ rewardArgs.totalRewards = 1000
        /\ rewardResult[1] = <<1000, 3>>

\* ------------------------------------------------------------------------
\* Properties of the transaction functions
\* ------------------------------------------------------------------------
\* C4: a join / leave / recategorize whose local precondition is violated
\* (AlreadyMember, NotMember, NoOpCategoryChange) is rejected before any
\* external call: nothing is handed to signAndSend, the promise is rejected.
C4_RejectedBeforeSubmission ==
  \A i \in 1..Len(calls) :
    calls[i].precondition # "ok" =>
      /\ calls[i].stage \notin {"signing", "submitted"}
      /\ calls[i].promise = "rejected"

Published == [metrics |-> metrics, proposals |-> proposals]

\* C3: when the poll that completed last had its chain reads rejected and an
\* earlier poll had succeeded, the hook still shows that poll's data, and
\* (no new poll having started) reports an error.
C3_LastGoodRetained ==
  (lastGood # NoValue /\ lastFailed) =>
    /\ Published = lastGood[1]
    /\ (\A i \in 1..Len(polls) : polls[i].stage = "published") => error # NoError

\* C10: as long as no poll has loaded the chain's data, the hook output says
\* so: it is still loading or it reports an error.
C10_NotReadyIndicated ==
  lastGood = NoValue => (loading \/ error # NoError)

\* C12: the error indication of a failed poll stays reported until a later
\* poll completes successfully; once a poll has succeeded after a failure the
\* indication is cleared and the hook shows that poll's data.
C12_StaleIndicationSelfHeals ==
  /\ lastFailed => error # NoError
  /\ healed => /\ error = NoError
               /\ treasury.pallet => Published = lastGood[1]

\* the runs that have published
PublishedPolls == {i \in 1..Len(polls) : polls[i].stage = "published"}

Latest(S) == CHOOSE i \in S : \A j \in S : j <= i

\* C13: when runs of the poll overlap, or the timer has been stopped, the hook
\* shows the data of the most recently started run that has completed
\* successfully (a run started earlier that ends later does not overwrite
\* it), and no run publishes once the timer is stopped.
C13_LatestPollWins ==
  /\ ~publishedStopped
  /\ (PublishedPolls # {} /\ \A i \in PublishedPolls : polls[i].read[1].ok)
       => Published = PublishedOf(polls[Latest(PublishedPolls)].read[1])

\* ------------------------------------------------------------------------
\* Settlement of the transaction functions
\* ------------------------------------------------------------------------
Made(i) == i <= Len(calls)

Settled(i) == i <= Len(calls) /\ calls[i].promise # "pending"

\* a settled promise keeps its outcome
SettledStays ==
  \A i \in 1..Len(calls) :
    calls[i].promise # "pending" => calls'[i].promise = calls[i].promise

\* C14: every call of joinValidatorPool, leaveValidatorPool or updateCategory
\* settles its promise in the end, and settles it once, whatever statuses the
\* chain delivers: also when the extrinsic is dropped, invalid or usurped and
\* when signAndSend itself fails.
C14_EventuallySettlesOnce ==
  /\ [][SettledStays]_vars
  /\ \A i \in 1..MaxCalls : Made(i) ~> Settled(i)
====
